---- MODULE Spec2Model ----
(***************************************************************************)
(* LED wave animation (MicroPython): the two LED sinks, LEDDisplay         *)
(* (src/led_display.py) and LEDPhysical (src/led_physical.py), the         *)
(* brightness codec and the animation loop main() (src/main.py).           *)
(*                                                                         *)
(* Floats are modelled as exact rationals [num, den] (den > 0).  The       *)
(* inputs enumerated for the sinks and the codec are dyadic rationals,     *)
(* on which the float products the code takes are exact; the values main() *)
(* computes from 0.05 are kept exact too (float rounding is not modelled). *)
(***************************************************************************)
EXTENDS Integers, Sequences, FiniteSets, TLC

VARIABLES
    phase,        \* "new" (before __init__) | "live" | "closed" (after cleanup) | "idle"
    args,         \* the constructor's arguments
    sink,         \* the LEDController object (a record of its fields)
    drv,          \* the driver calls issued by the last operation, in order
    last,         \* the last operation called on the sink: [op, idx, val, raised]
    clock,        \* time.ticks_ms()
    fps,          \* what update_fps_display has reported so far
    pc,           \* main(): position
    i,            \* main(): the for loop's index
    wave_offset,  \* main(): wave offset, in steps of WAVE_SPEED
    frames,       \* main(): completed iterations of the while loop
    log,          \* main(): the calls made on the sink, in order
    stop,         \* main(): how the loop ended
    color,        \* codec input: RGB565 colour
    brightness,   \* codec input: brightness factor
    out           \* codec output

vars == <<phase, args, sink, drv, last, clock, fps, pc, i, wave_offset, frames,
          log, stop, color, brightness, out>>

sinkVars == <<phase, args, sink, drv, last, clock, fps>>
mainVars == <<pc, i, wave_offset, frames, log, stop>>
codecVars == <<color, brightness, out>>

(***************************************************************************)
(* Bounds of the model.                                                    *)
(***************************************************************************)
MaxNumLeds == 10     \* requested num_leds ranges over -1..MaxNumLeds
MaxPins == 3         \* explicit pin lists have 0..MaxPins pins
MaxLeds == 2         \* num_leds of the sinks that are then operated
PwmDen == 4          \* pwm values are multiples of 1/PwmDen
MaxOver == 1         \* pwm values run MaxOver steps below 0.0 and above 1.0
MaxTicks == 1        \* update_fps_display calls on an operated sink
MaxCalls == 101      \* update_fps_display calls in the frame-rate runs
MaxElapsed == 2      \* milliseconds that pass between two reports
MaxFrames == 41      \* frames of the animation loop (one wave period is 40)
BrightDen == 8       \* brightness factors are multiples of 1/BrightDen
MaxBright == 4       \* brightness runs MaxBright steps below 0.0 and above 1.0

(***************************************************************************)
(* Arithmetic of the language.                                             *)
(***************************************************************************)
Min(a, b) == IF a <= b THEN a ELSE b
Max(a, b) == IF a >= b THEN a ELSE b

\* int(x) for x = a / d, d > 0: truncation toward zero
Trunc(a, d) == IF a >= 0 THEN a \div d ELSE -((-a) \div d)

\* int(k * v) for an integer k and a float v
IntMul(k, v) == Trunc(k * v.num, v.den)

Rat(n, d) == [num |-> n, den |-> d]

\* s[:n] of a list
SlicePrefix(s, n) ==
    IF n >= 0 THEN SubSeq(s, 1, Min(n, Len(s)))
    ELSE SubSeq(s, 1, Max(Len(s) + n, 0))

\* x & m for a mask m = 2^hi - 2^lo (bits lo..hi-1), any integer x
BitField(x, lo, hi) == ((x % (2 ^ hi)) \div (2 ^ lo)) * (2 ^ lo)

\* a | b for naturals
RECURSIVE BitOr(_, _)
BitOr(a, b) ==
    IF a = 0 THEN b
    ELSE IF b = 0 THEN a
    ELSE 2 * BitOr(a \div 2, b \div 2) + (IF a % 2 = 1 \/ b % 2 = 1 THEN 1 ELSE 0)

\* time.ticks_ms() wraps at TICKS_PERIOD; time.ticks_diff is the signed difference
TicksPeriod == 2 ^ 30
ticks_add(t, d) == (t + d) % TicksPeriod
ticks_diff(a, b) == ((a - b + TicksPeriod \div 2) % TicksPeriod) - TicksPeriod \div 2

(***************************************************************************)
(* ili9341.color565(r, g, b): the display driver's packing of 8-bit RGB    *)
(* into 5/6/5 bits, (r & 0xf8) << 8 | (g & 0xfc) << 3 | b >> 3.            *)
(***************************************************************************)
color565(r, g, b) ==
    BitOr(BitOr(BitField(r, 3, 8) * 256, BitField(g, 2, 8) * 8), b \div 8)

Red5(c) == (c \div 2048) % 32
Green6(c) == (c \div 32) % 64
Blue5(c) == c % 32

(***************************************************************************)
(* LEDDisplay._adjust_brightness_rgb565                                    *)
(***************************************************************************)
\* mutant: the 5-bit channel is scaled by 255/32
To8_5_by32(x) == (x * 255) \div 32

To8_5(x) == (x * 255) \div 31
To8_6(x) == (x * 255) \div 63

\* mutant: no upper clamp
Clamp8_lower_only(x) == Max(0, x)

Clamp8(x) == Min(255, Max(0, x))

Scale8(x8, b) == Clamp8(IntMul(x8, b))

adjust_brightness_rgb565(c, b) ==
    color565(Scale8(To8_5(Red5(c)), b),
             Scale8(To8_6(Green6(c)), b),
             Scale8(To8_5(Blue5(c)), b))

(***************************************************************************)
(* LEDDisplay                                                              *)
(***************************************************************************)
DisplayWidth == 320
DisplayHeight == 240
NarrowWidth == 100
FpsInterval == 50
White == color565(255, 255, 255)
Black == color565(0, 0, 0)

\* mutant: the row starts at the left edge of the first LED, not at its centre
CandidateX_edge(num_leds, led_radius, padding, width, k) ==
    LET total_width == num_leds * (led_radius * 2) + (num_leds - 1) * padding
        start_x == (width - total_width) \div 2
    IN  start_x + k * (led_radius * 2 + padding)

\* the candidate X position of LED k
CandidateX(num_leds, led_radius, padding, width, k) ==
    LET total_width == num_leds * (led_radius * 2) + (num_leds - 1) * padding
        start_x == (width - total_width) \div 2 + led_radius
    IN  start_x + k * (led_radius * 2 + padding)

Fits(x, led_radius, width) == x + led_radius <= width

RECURSIVE PositionsFrom(_, _, _, _, _)
PositionsFrom(k, num_leds, led_radius, padding, width) ==
    IF k >= num_leds THEN <<>>
    ELSE LET x == CandidateX(num_leds, led_radius, padding, width, k)
         IN  (IF Fits(x, led_radius, width) THEN <<x>> ELSE <<>>)
             \o PositionsFrom(k + 1, num_leds, led_radius, padding, width)

calculate_led_positions(num_leds, led_radius, padding, width) ==
    PositionsFrom(0, num_leds, led_radius, padding, width)

LEDDisplay_init(a, now) ==
    LET pos == calculate_led_positions(a.num_leds, a.led_radius, a.padding, a.width)
    IN  [kind |-> "display",
         num_leds |-> a.num_leds,
         led_radius |-> a.led_radius,
         padding |-> a.padding,
         width |-> a.width,
         height |-> DisplayHeight,
         base_color |-> White,
         led_positions |-> pos,
         shown |-> [k \in 1 .. Len(pos) |-> Black],
         led_pins |-> <<>>,
         leds |-> <<>>,
         frame_count |-> 0,
         fps_update_interval |-> FpsInterval,
         start_time |-> now]

LEDDisplay_init_drv(a) == <<[op |-> "clear", color |-> Black]>>

LEDDisplay_get_num_leds(s) == Len(s.led_positions)

\* the block _draw_circle_fast submits: the bounding box clipped to the panel
DrawCircleBlock(s, x0, y0, radius, c) ==
    [op |-> "block",
     x0 |-> Max(0, x0 - radius),
     y0 |-> Max(0, y0 - radius),
     x1 |-> Min(s.width - 1, x0 + radius),
     y1 |-> Min(s.height - 1, y0 + radius),
     color |-> c]

LEDDisplay_InRange(s, led_index) ==
    0 <= led_index /\ led_index < Len(s.led_positions)

LEDDisplay_set_pwm(s, led_index, pwm_value) ==
    IF LEDDisplay_InRange(s, led_index)
    THEN [s EXCEPT !.shown[led_index + 1] =
                       adjust_brightness_rgb565(s.base_color, pwm_value)]
    ELSE s

LEDDisplay_set_pwm_drv(s, led_index, pwm_value) ==
    IF LEDDisplay_InRange(s, led_index)
    THEN <<DrawCircleBlock(s, s.led_positions[led_index + 1], s.height \div 2,
                           s.led_radius,
                           adjust_brightness_rgb565(s.base_color, pwm_value))>>
    ELSE <<>>

LEDDisplay_cleanup(s) == [s EXCEPT !.shown = [k \in DOMAIN s.shown |-> Black]]

LEDDisplay_cleanup_drv(s) == <<[op |-> "clear", color |-> Black]>>

(***************************************************************************)
(* LEDPhysical                                                             *)
(***************************************************************************)
DefaultPins == <<2, 4, 5, 18, 19, 21>>
PwmFreq == 1000
MaxDuty == 1023

\* led_pins is [given, pins]: given = FALSE is the default led_pins=None
NonePins == [given |-> FALSE, pins |-> <<>>]
GivenPins(p) == [given |-> TRUE, pins |-> p]

LEDPhysical_pins(num_leds, led_pins) ==
    SlicePrefix(IF ~led_pins.given THEN DefaultPins ELSE led_pins.pins, num_leds)

PhysicalObject(pins, n, now) ==
    [kind |-> "physical",
     num_leds |-> n,
     led_radius |-> 0,
     padding |-> 0,
     width |-> 0,
     height |-> 0,
     base_color |-> 0,
     led_positions |-> <<>>,
     shown |-> <<>>,
     led_pins |-> pins,
     leds |-> [k \in 1 .. Len(pins) |->
                  [pin |-> pins[k], freq |-> PwmFreq, duty |-> 0,
                   deinit |-> 0, lit |-> FALSE]],
     frame_count |-> 0,
     fps_update_interval |-> FpsInterval,
     start_time |-> now]

\* mutant: num_leds is not reconciled with the pins kept
LEDPhysical_init_requested(a, now) ==
    PhysicalObject(LEDPhysical_pins(a.num_leds, a.led_pins), a.num_leds, now)

LEDPhysical_init(a, now) ==
    LET pins == LEDPhysical_pins(a.num_leds, a.led_pins)
    IN  PhysicalObject(pins, Len(pins), now)

RECURSIVE InitDrvFrom(_, _)
InitDrvFrom(k, pins) ==
    IF k > Len(pins) THEN <<>>
    ELSE <<[op |-> "PWM", ch |-> k - 1, val |-> pins[k]],
           [op |-> "freq", ch |-> k - 1, val |-> PwmFreq],
           [op |-> "duty", ch |-> k - 1, val |-> 0]>> \o InitDrvFrom(k + 1, pins)

LEDPhysical_init_drv(a) == InitDrvFrom(1, LEDPhysical_pins(a.num_leds, a.led_pins))

LEDPhysical_get_num_leds(s) == s.num_leds

LEDPhysical_InRange(s, led_index) == 0 <= led_index /\ led_index < Len(s.leds)

\* mutant: the duty is rounded to nearest
duty_value_round(pwm_value) ==
    Max(0, Min(MaxDuty, (2 * MaxDuty * pwm_value.num + pwm_value.den)
                            \div (2 * pwm_value.den)))

duty_value(pwm_value) == Max(0, Min(MaxDuty, IntMul(MaxDuty, pwm_value)))

\* mutant: no lower bound on the index, so a negative one counts from the end
LEDPhysical_set_pwm_wrap(s, led_index, pwm_value) ==
    IF led_index < Len(s.leds) /\ Len(s.leds) > 0
    THEN [s EXCEPT !.leds[(led_index % Len(s.leds)) + 1].duty = duty_value(pwm_value)]
    ELSE s

LEDPhysical_set_pwm(s, led_index, pwm_value) ==
    IF LEDPhysical_InRange(s, led_index)
    THEN [s EXCEPT !.leds[led_index + 1].duty = duty_value(pwm_value),
                   !.leds[led_index + 1].lit = @ \/ duty_value(pwm_value) > 0]
    ELSE s

LEDPhysical_set_pwm_drv(s, led_index, pwm_value) ==
    IF LEDPhysical_InRange(s, led_index)
    THEN <<[op |-> "duty", ch |-> led_index, val |-> duty_value(pwm_value)]>>
    ELSE <<>>

\* mutant: the channels are released without being switched off
LEDPhysical_cleanup_no_off(s) ==
    [s EXCEPT !.leds = [k \in DOMAIN s.leds |-> [s.leds[k] EXCEPT !.deinit = @ + 1]]]

LEDPhysical_cleanup(s) ==
    [s EXCEPT !.leds = [k \in DOMAIN s.leds |->
                           [s.leds[k] EXCEPT !.duty = 0, !.deinit = @ + 1]]]

RECURSIVE CleanupDrvFrom(_, _)
CleanupDrvFrom(k, n) ==
    IF k > n THEN <<>>
    ELSE <<[op |-> "duty", ch |-> k - 1, val |-> 0],
           [op |-> "deinit", ch |-> k - 1, val |-> 0]>> \o CleanupDrvFrom(k + 1, n)

LEDPhysical_cleanup_drv(s) == CleanupDrvFrom(1, Len(s.leds))

(***************************************************************************)
(* update_fps_display, the same counter in both classes.  The division     *)
(* fps = fps_update_interval / elapsed_time raises ZeroDivisionError when  *)
(* no millisecond has passed since start_time.                             *)
(***************************************************************************)
FpsReportDrv(s) ==
    IF s.kind = "display"
    THEN <<[op |-> "fill_rectangle", x0 |-> 0, y0 |-> s.height - 25,
            x1 |-> 120, y1 |-> 25, color |-> Black],
           [op |-> "draw_text", x0 |-> 5, y0 |-> s.height - 20,
            x1 |-> 0, y1 |-> 0, color |-> color565(255, 255, 0)]>>
    ELSE <<>>

update_fps_display(s, now) ==
    LET s1 == [s EXCEPT !.frame_count = @ + 1]
        elapsed_ms == ticks_diff(now, s1.start_time)
    IN  IF s1.frame_count % s1.fps_update_interval # 0
        THEN [sink |-> s1, raised |-> FALSE, report |-> <<>>, drv |-> <<>>]
        ELSE IF elapsed_ms = 0
        THEN [sink |-> s1, raised |-> TRUE, report |-> <<>>, drv |-> <<>>]
        ELSE [sink |-> [s1 EXCEPT !.start_time = now],
              raised |-> FALSE,
              report |-> <<[call |-> s1.frame_count,
                            fps_num |-> s1.fps_update_interval * 1000,
                            fps_den |-> elapsed_ms,
                            at |-> now]>>,
              drv |-> FpsReportDrv(s1)]

(***************************************************************************)
(* The LEDController interface main() is written against.                  *)
(***************************************************************************)
Controller_init(a, now) ==
    IF a.kind = "display" THEN LEDDisplay_init(a, now) ELSE LEDPhysical_init(a, now)

Controller_init_drv(a) ==
    IF a.kind = "display" THEN LEDDisplay_init_drv(a) ELSE LEDPhysical_init_drv(a)

get_num_leds(s) ==
    IF s.kind = "display" THEN LEDDisplay_get_num_leds(s) ELSE LEDPhysical_get_num_leds(s)

set_pwm(s, led_index, pwm_value) ==
    IF s.kind = "display" THEN LEDDisplay_set_pwm(s, led_index, pwm_value)
    ELSE LEDPhysical_set_pwm(s, led_index, pwm_value)

set_pwm_drv(s, led_index, pwm_value) ==
    IF s.kind = "display" THEN LEDDisplay_set_pwm_drv(s, led_index, pwm_value)
    ELSE LEDPhysical_set_pwm_drv(s, led_index, pwm_value)

cleanup(s) ==
    IF s.kind = "display" THEN LEDDisplay_cleanup(s) ELSE LEDPhysical_cleanup(s)

cleanup_drv(s) ==
    IF s.kind = "display" THEN LEDDisplay_cleanup_drv(s) ELSE LEDPhysical_cleanup_drv(s)

NoSink == [kind |-> "none"]
NoArgs == [kind |-> "none"]
NoCall == [op |-> "none", idx |-> 0, val |-> Rat(0, 1), raised |-> FALSE]
NoFps == [reports |-> 0, last |-> <<>>]
NoStop == [cause |-> "none", frames |-> 0, i |-> 0, pc |-> "none"]

MainIdle ==
    /\ pc = "idle" /\ i = 0 /\ wave_offset = Rat(0, 1) /\ frames = 0
    /\ log = <<>> /\ stop = NoStop

CodecIdle == color = 0 /\ brightness = Rat(0, 1) /\ out = -1

SinkIdle ==
    /\ phase = "idle" /\ args = NoArgs /\ sink = NoSink /\ drv = <<>>
    /\ last = NoCall /\ clock = 0 /\ fps = NoFps

(***************************************************************************)
(* Construction: the constructors on every argument list of the bounds.    *)
(***************************************************************************)
PinLists == {NonePins} \cup {GivenPins([k \in 1 .. n |-> 11 + k]) : n \in 0 .. MaxPins}

PhysicalArgs ==
    { [kind |-> "physical", num_leds |-> n, led_pins |-> p,
       led_radius |-> 0, padding |-> 0, width |-> 0] :
      n \in -1 .. MaxNumLeds, p \in PinLists }

DisplayArgs ==
    { [kind |-> "display", num_leds |-> n, led_pins |-> NonePins,
       led_radius |-> r, padding |-> p, width |-> w] :
      n \in -1 .. MaxNumLeds, r \in {1, 8}, p \in {0, 5},
      w \in {NarrowWidth, DisplayWidth} }

InitNew ==
    /\ phase = "new"
    /\ args \in PhysicalArgs \cup DisplayArgs
    /\ sink = NoSink /\ drv = <<>> /\ last = NoCall /\ clock = 0 /\ fps = NoFps
    /\ MainIdle /\ CodecIdle

Construct ==
    /\ phase = "new"
    /\ phase' = "live"
    /\ sink' = Controller_init(args, clock)
    /\ drv' = Controller_init_drv(args)
    /\ last' = [NoCall EXCEPT !.op = "__init__"]
    /\ UNCHANGED <<args, clock, fps>>
    /\ UNCHANGED mainVars /\ UNCHANGED codecVars

NextNew == Construct

SpecNew == InitNew /\ [][NextNew]_vars

(***************************************************************************)
(* A constructed sink under calls of its interface.                        *)
(***************************************************************************)
SinkArgs ==
    { [kind |-> "physical", num_leds |-> n, led_pins |-> NonePins,
       led_radius |-> 0, padding |-> 0, width |-> 0] : n \in 0 .. MaxLeds }
    \cup
    { [kind |-> "display", num_leds |-> n, led_pins |-> NonePins,
       led_radius |-> 8, padding |-> 5, width |-> DisplayWidth] : n \in 0 .. MaxLeds }

PwmValues == { Rat(n, PwmDen) : n \in -MaxOver .. (PwmDen + MaxOver) }

InitSink ==
    /\ phase = "live"
    /\ args \in SinkArgs
    /\ clock = 0
    /\ sink = Controller_init(args, clock)
    /\ drv = Controller_init_drv(args)
    /\ last = [NoCall EXCEPT !.op = "__init__"]
    /\ fps = NoFps
    /\ MainIdle /\ CodecIdle

SetPwm ==
    /\ phase = "live"
    /\ \E idx \in -1 .. get_num_leds(sink), v \in PwmValues :
          /\ sink' = set_pwm(sink, idx, v)
          /\ drv' = set_pwm_drv(sink, idx, v)
          /\ last' = [op |-> "set_pwm", idx |-> idx, val |-> v, raised |-> FALSE]
    /\ UNCHANGED <<phase, args, clock, fps>>
    /\ UNCHANGED mainVars /\ UNCHANGED codecVars

\* update_fps_display(): the counter, the report and the reset
FpsCall ==
    LET r == update_fps_display(sink, clock)
    IN  /\ sink' = r.sink
        /\ drv' = r.drv
        /\ last' = [op |-> "update_fps_display", idx |-> 0, val |-> Rat(0, 1),
                    raised |-> r.raised]
        /\ fps' = IF r.report = <<>> THEN fps
                  ELSE [reports |-> fps.reports + 1, last |-> r.report]

UpdateFps ==
    /\ phase = "live"
    /\ sink.frame_count < MaxTicks
    /\ FpsCall
    /\ UNCHANGED <<phase, args, clock>>
    /\ UNCHANGED mainVars /\ UNCHANGED codecVars

Cleanup ==
    /\ phase = "live"
    /\ phase' = "closed"
    /\ sink' = cleanup(sink)
    /\ drv' = cleanup_drv(sink)
    /\ last' = [NoCall EXCEPT !.op = "cleanup"]
    /\ UNCHANGED <<args, clock, fps>>
    /\ UNCHANGED mainVars /\ UNCHANGED codecVars

NextSink == SetPwm \/ UpdateFps \/ Cleanup

SpecSink == InitSink /\ [][NextSink]_vars

(***************************************************************************)
(* Properties of the constructors (SpecNew).                               *)
(***************************************************************************)
ProvidedOrDefaultPins(a) == IF a.led_pins.given THEN a.led_pins.pins ELSE DefaultPins

CreatedChannels == Cardinality({k \in DOMAIN drv : drv[k].op = "PWM"})

PhysicalBuilt == phase = "live" /\ sink.kind = "physical"
DisplayBuilt == phase = "live" /\ sink.kind = "display"

PhysicalCountIsMin ==
    /\ get_num_leds(sink) = Min(args.num_leds, Len(ProvidedOrDefaultPins(args)))
    /\ get_num_leds(sink) = CreatedChannels
    /\ get_num_leds(sink) = Len(sink.leds)

\* C4 as stated: for every requested num_leds and every provided-or-default pin
\* list, get_num_leds() of the constructed Physical Sink is
\* min(num_leds, len(pin list)) and is the number of PWM channels created.
C4_CountIsMinForEveryNumLeds == PhysicalBuilt => PhysicalCountIsMin

\* C4 amended: for every requested num_leds >= 0 and every provided-or-default
\* pin list, get_num_leds() is min(num_leds, len(pin list)) and is the number of
\* PWM channels created (6 for num_leds = 6 or 10 on the 6 default pins).  For a
\* negative num_leds the slice led_pins[:num_leds] drops pins from the end.
C4_CountIsMinForNonNegative ==
    (PhysicalBuilt /\ args.num_leds >= 0) =>
        /\ PhysicalCountIsMin
        /\ (args.num_leds \in {6, 10} /\ Len(ProvidedOrDefaultPins(args)) = 6)
               => get_num_leds(sink) = 6

C4_Witness_Truncated ==
    /\ PhysicalBuilt
    /\ args.num_leds = 10
    /\ ~args.led_pins.given
    /\ get_num_leds(sink) = 6
    /\ CreatedChannels = 6

\* the row's first centre and pitch, from the constructor's arguments
RowStart(a) ==
    (a.width - (a.num_leds * 2 * a.led_radius + (a.num_leds - 1) * a.padding)) \div 2
        + a.led_radius
RowPitch(a) == 2 * a.led_radius + a.padding
FittingCandidates(a) ==
    {k \in 0 .. (a.num_leds - 1) :
        RowStart(a) + k * RowPitch(a) + a.led_radius <= a.width}

OutOfRange(idx) == idx < 0 \/ idx >= get_num_leds(sink)

\* C3: for both sinks, set_pwm(i, v) with i outside 0..get_num_leds()-1
\* (negative i included) raises nothing, issues no driver call and leaves the
\* sink (every channel, the frame counter) as it was.
C3_OutOfRangeSetPwmIsNoOp ==
    [][(last'.op = "set_pwm" /\ (last'.idx < 0 \/ last'.idx >= get_num_leds(sink)))
          => (sink' = sink /\ drv' = <<>> /\ ~last'.raised)]_vars

C3_Witness_NegativeIndexIgnored ==
    /\ last.op = "set_pwm" /\ last.idx < 0 /\ drv = <<>>
    /\ get_num_leds(sink) = MaxLeds
    /\ sink.kind = "physical" /\ sink.leds[1].lit

\* v clamped into [0, 1], and floor(v' * 1023)
ClampUnit(v) == IF v.num < 0 THEN Rat(0, 1) ELSE IF v.num > v.den THEN Rat(1, 1) ELSE v
FloorDuty(v) == (ClampUnit(v).num * 1023) \div ClampUnit(v).den

\* C7: Physical Sink set_pwm(i, v) with i in range sets exactly one duty on
\* channel i, floor(v' * 1023) for v' = v clamped to [0,1]: an integer in
\* 0..1023, 0 for v = 0.0, 1023 for v = 1.0, 511 for v = 0.5.
C7_DutyIsFloorOfClampedValue ==
    (sink.kind = "physical" /\ last.op = "set_pwm" /\ ~OutOfRange(last.idx)) =>
        /\ drv = <<[op |-> "duty", ch |-> last.idx, val |-> FloorDuty(last.val)]>>
        /\ sink.leds[last.idx + 1].duty = FloorDuty(last.val)
        /\ drv[1].val \in 0 .. 1023
        /\ last.val = Rat(0, PwmDen) => drv[1].val = 0
        /\ last.val = Rat(PwmDen, PwmDen) => drv[1].val = 1023
        /\ 2 * last.val.num = last.val.den => drv[1].val = 511

C7_Witness_HalfGives511 ==
    /\ sink.kind = "physical" /\ last.op = "set_pwm" /\ ~OutOfRange(last.idx)
    /\ 2 * last.val.num = last.val.den
    /\ drv = <<[op |-> "duty", ch |-> last.idx, val |-> 511]>>

\* C10: Physical Sink cleanup(), after any calls of set_pwm and update_fps_display,
\* writes duty 0 to every constructed channel and then deinitializes it, each
\* exactly once, so every channel's last duty is 0.
C10_CleanupZeroesThenReleasesEveryChannel ==
    (sink.kind = "physical" /\ phase = "closed") =>
        /\ Len(drv) = 2 * Len(sink.leds)
        /\ \A k \in DOMAIN sink.leds :
              /\ drv[2 * k - 1] = [op |-> "duty", ch |-> k - 1, val |-> 0]
              /\ drv[2 * k] = [op |-> "deinit", ch |-> k - 1, val |-> 0]
              /\ sink.leds[k].duty = 0
              /\ sink.leds[k].deinit = 1

C10_Witness_LitChannelsSwitchedOff ==
    /\ sink.kind = "physical" /\ phase = "closed"
    /\ Len(sink.leds) = MaxLeds
    /\ \A k \in DOMAIN sink.leds : sink.leds[k].lit /\ sink.leds[k].duty = 0
    /\ sink.frame_count > 0

(***************************************************************************)
(* update_fps_display under passing time (SpecFps).                        *)
(***************************************************************************)
FpsArgs ==
    { [kind |-> "physical", num_leds |-> MaxLeds, led_pins |-> NonePins,
       led_radius |-> 0, padding |-> 0, width |-> 0],
      [kind |-> "display", num_leds |-> MaxLeds, led_pins |-> NonePins,
       led_radius |-> 8, padding |-> 5, width |-> DisplayWidth] }

InitFps ==
    /\ phase = "live"
    /\ args \in FpsArgs
    /\ clock \in {0, TicksPeriod - 1}
    /\ sink = Controller_init(args, clock)
    /\ drv = Controller_init_drv(args)
    /\ last = [NoCall EXCEPT !.op = "__init__"]
    /\ fps = NoFps
    /\ MainIdle /\ CodecIdle

FpsTick ==
    /\ phase = "live"
    /\ sink.frame_count < MaxCalls
    /\ FpsCall
    /\ UNCHANGED <<phase, args, clock>>
    /\ UNCHANGED mainVars /\ UNCHANGED codecVars

\* a millisecond passes between two calls
TimePasses ==
    /\ phase = "live"
    /\ ticks_diff(clock, sink.start_time) < MaxElapsed
    /\ clock' = ticks_add(clock, 1)
    /\ UNCHANGED <<phase, args, sink, drv, last, fps>>
    /\ UNCHANGED mainVars /\ UNCHANGED codecVars

NextFps == FpsTick \/ TimePasses

SpecFps == InitFps /\ [][NextFps]_vars

\* C9: a frame rate is reported on exactly the update_fps_display() calls
\* numbered 50, 100, 150, ... since construction, each computed as 50 over the
\* seconds since the previous report (or construction), and after a report
\* start_time is the time of that report.
C9_RateReportedOnEvery50thCall ==
    /\ fps.reports = sink.frame_count \div FpsInterval
    /\ last.op = "update_fps_display" => ~last.raised
    /\ fps.reports > 0 =>
          /\ fps.last[1].call = FpsInterval * fps.reports
          /\ fps.last[1].fps_num = FpsInterval * 1000
          /\ fps.last[1].fps_den > 0
          /\ sink.start_time = fps.last[1].at

(***************************************************************************)
(* The brightness codec on every colour and factor of the bounds           *)
(* (SpecCodec).  The colours take every value of each 5/6/5 field.         *)
(***************************************************************************)
ColorInputs ==
    { r * 2048 + g * 32 + ((r + g) % 32) : r \in 0 .. 31, g \in 0 .. 63 } \cup {White}

BrightInputs == { Rat(n, BrightDen) : n \in -MaxBright .. (BrightDen + MaxBright) }

InitCodec ==
    /\ color \in ColorInputs
    /\ brightness \in BrightInputs
    /\ out = -1
    /\ SinkIdle /\ MainIdle

Adjust ==
    /\ out = -1
    /\ out' = adjust_brightness_rgb565(color, brightness)
    /\ UNCHANGED <<color, brightness>>
    /\ UNCHANGED sinkVars /\ UNCHANGED mainVars

NextCodec == Adjust

SpecCodec == InitCodec /\ [][NextCodec]_vars

Adjusted == out # -1
BelowZero(b) == b.num < 0
AboveOne(b) == b.num > b.den
FullBrightness == adjust_brightness_rgb565(color, Rat(1, 1))

\* C5 as stated: for every colour c and every brightness b outside [0,1],
\* _adjust_brightness_rgb565(c, b) is the colour returned for b clamped into
\* [0,1].
C5_OutsideUnitSameAsClamped ==
    (Adjusted /\ (BelowZero(brightness) \/ AboveOne(brightness))) =>
        out = adjust_brightness_rgb565(color, ClampUnit(brightness))

\* C5 amended: for b < 0 the result is the colour returned for b = 0 (black).
\* For b > 1 the clamp acts on each scaled 8-bit channel, not on b: every 5/6/5
\* field of the result is at least the field returned for b = 1.0 and at most
\* the field's maximum (no wraparound), and the result is the one for b = 1.0
\* when the colour is white 0xFFFF, the sink's base colour.
C5_ClampedAtEightBitStage ==
    /\ (Adjusted /\ BelowZero(brightness)) =>
          /\ out = adjust_brightness_rgb565(color, Rat(0, 1))
          /\ out = 0
    /\ (Adjusted /\ AboveOne(brightness)) =>
          /\ out \in 0 .. 65535
          /\ Red5(FullBrightness) <= Red5(out)
          /\ Green6(FullBrightness) <= Green6(out)
          /\ Blue5(FullBrightness) <= Blue5(out)
          /\ color = 65535 => out = 65535

C5_Witness_BrighterThanFull ==
    /\ Adjusted /\ AboveOne(brightness)
    /\ Red5(out) > Red5(FullBrightness)
    /\ Green6(out) = 63 /\ Green6(color) < 63

Abs(x) == IF x < 0 THEN -x ELSE x

\* C6: for every colour c, _adjust_brightness_rgb565(c, 1.0) reproduces c: each
\* 5/6/5 field within one quantization step of c's, and 0xFFFF exactly.
C6_FullBrightnessReproducesColour ==
    (Adjusted /\ brightness.num = brightness.den) =>
        /\ Abs(Red5(out) - Red5(color)) <= 1
        /\ Abs(Green6(out) - Green6(color)) <= 1
        /\ Abs(Blue5(out) - Blue5(color)) <= 1
        /\ color = 65535 => out = 65535

C6_Witness_WhiteExact ==
    /\ Adjusted /\ brightness = Rat(BrightDen, BrightDen)
    /\ color = 65535 /\ out = 65535

(***************************************************************************)
(* main(): the animation loop (Spec).  The controller is LEDDisplay, or    *)
(* LEDPhysical with the other import line.  A sink call may raise (a       *)
(* driver I/O error) and Ctrl-C may arrive anywhere inside the try block;  *)
(* the frames are bounded by MaxFrames.                                    *)
(***************************************************************************)
MIN_PWM == Rat(5, 100)
MAX_PWM == Rat(1, 1)
WAVE_SPEED == Rat(5, 100)
MainNumLeds == 6

MainArgs ==
    { [kind |-> "display", num_leds |-> MainNumLeds, led_pins |-> NonePins,
       led_radius |-> 8, padding |-> 5, width |-> DisplayWidth],
      [kind |-> "physical", num_leds |-> MainNumLeds, led_pins |-> NonePins,
       led_radius |-> 0, padding |-> 0, width |-> 0] }

\* (wave_offset + i / count) % 2.0, over the denominator wave_offset.den * count
wave_position(offset, k, count) ==
    Rat((offset.num * count + k * offset.den) % (2 * offset.den * count),
        offset.den * count)

\* mutant: the falling edge is not mirrored
wave_value_no_fall(position) == position

wave_value(position) ==
    IF position.num <= position.den THEN position
    ELSE Rat(2 * position.den - position.num, position.den)

\* MIN_PWM + wave_value * (MAX_PWM - MIN_PWM)
pwm_value(w) ==
    Rat(MIN_PWM.num * MAX_PWM.den * w.den
            + w.num * (MAX_PWM.num * MIN_PWM.den - MIN_PWM.num * MAX_PWM.den),
        MIN_PWM.den * MAX_PWM.den * w.den)

FramePwm(offset, k, count) == pwm_value(wave_value(wave_position(offset, k, count)))

\* mutant: the for loop stops one LED short
ForHasNext_short(s, k) == k < get_num_leds(s) - 1

\* for i in range(leds.get_num_leds())
ForHasNext(s, k) == k < get_num_leds(s)

Outcomes == {"ok", "error", "interrupt"}

Call(op, idx, val) == [op |-> op, idx |-> idx, val |-> val]

Init ==
    /\ phase = "new"
    /\ args \in MainArgs
    /\ sink = NoSink /\ drv = <<>> /\ last = NoCall /\ clock = 0 /\ fps = NoFps
    /\ pc = "init" /\ i = 0 /\ wave_offset = Rat(0, 1) /\ frames = 0
    /\ log = <<>> /\ stop = NoStop
    /\ CodecIdle

\* leds = LEDController(num_leds=6); wave_offset = 0.0; try:
MainConstruct ==
    /\ pc = "init"
    /\ phase' = "live"
    /\ sink' = Controller_init(args, clock)
    /\ drv' = Controller_init_drv(args)
    /\ last' = [NoCall EXCEPT !.op = "__init__"]
    /\ wave_offset' = Rat(0, WAVE_SPEED.den)
    /\ pc' = "for"
    /\ UNCHANGED <<args, clock, fps, i, frames, log, stop>>
    /\ UNCHANGED codecVars

\* the constructor raises: main() is left before the try block is entered
MainConstructRaises ==
    /\ pc = "init"
    /\ pc' = "done"
    /\ stop' = [cause |-> "init_error", frames |-> 0, i |-> 0, pc |-> "init"]
    /\ UNCHANGED sinkVars
    /\ UNCHANGED <<i, wave_offset, frames, log>>
    /\ UNCHANGED codecVars

\* leds.set_pwm(i, pwm_value) for the next i of the for loop
MainSetPwm ==
    /\ pc = "for"
    /\ frames < MaxFrames
    /\ ForHasNext(sink, i)
    /\ \E outcome \in Outcomes :
          LET v == FramePwm(wave_offset, i, get_num_leds(sink))
          IN  /\ log' = Append(log, Call("set_pwm", i, v))
              /\ last' = [op |-> "set_pwm", idx |-> i, val |-> v,
                          raised |-> outcome # "ok"]
              /\ IF outcome = "ok"
                 THEN /\ sink' = set_pwm(sink, i, v)
                      /\ drv' = set_pwm_drv(sink, i, v)
                      /\ i' = i + 1
                      /\ UNCHANGED <<pc, stop>>
                 ELSE /\ pc' = "except"
                      /\ stop' = [cause |-> outcome, frames |-> frames, i |-> i,
                                  pc |-> "set_pwm"]
                      /\ UNCHANGED <<sink, drv, i>>
    /\ UNCHANGED <<phase, args, clock, fps, wave_offset, frames>>
    /\ UNCHANGED codecVars

\* the for loop is exhausted: wave_offset += WAVE_SPEED
MainAdvance ==
    /\ pc = "for"
    /\ frames < MaxFrames
    /\ ~ForHasNext(sink, i)
    /\ wave_offset' = Rat(wave_offset.num + WAVE_SPEED.num, wave_offset.den)
    /\ pc' = "tick"
    /\ UNCHANGED sinkVars
    /\ UNCHANGED <<i, frames, log, stop>>
    /\ UNCHANGED codecVars

\* leds.update_fps_display(), and back to the top of the while loop
MainTick ==
    /\ pc = "tick"
    /\ \E outcome \in Outcomes :
          LET r == update_fps_display(sink, clock)
              res == IF outcome = "ok" /\ r.raised THEN "error" ELSE outcome
          IN  /\ log' = Append(log, Call("update_fps_display", 0, Rat(0, 1)))
              /\ last' = [op |-> "update_fps_display", idx |-> 0, val |-> Rat(0, 1),
                          raised |-> res # "ok"]
              /\ IF res = "ok"
                 THEN /\ sink' = r.sink
                      /\ drv' = r.drv
                      /\ fps' = IF r.report = <<>> THEN fps
                                ELSE [reports |-> fps.reports + 1, last |-> r.report]
                      /\ frames' = frames + 1
                      /\ i' = 0
                      /\ pc' = "for"
                      /\ UNCHANGED stop
                 ELSE /\ pc' = "except"
                      /\ stop' = [cause |-> res, frames |-> frames, i |-> i,
                                  pc |-> "update_fps_display"]
                      /\ UNCHANGED <<sink, drv, fps, frames, i>>
    /\ UNCHANGED <<phase, args, clock, wave_offset>>
    /\ UNCHANGED codecVars

\* Ctrl-C between two statements of the try block
KeyboardInterrupt ==
    /\ pc \in {"for", "tick"}
    /\ pc' = "except"
    /\ stop' = [cause |-> "interrupt", frames |-> frames, i |-> i, pc |-> pc]
    /\ UNCHANGED sinkVars
    /\ UNCHANGED <<i, wave_offset, frames, log>>
    /\ UNCHANGED codecVars

\* except KeyboardInterrupt / except Exception: a message is printed
MainExcept ==
    /\ pc = "except"
    /\ pc' = "finally"
    /\ UNCHANGED sinkVars
    /\ UNCHANGED <<i, wave_offset, frames, log, stop>>
    /\ UNCHANGED codecVars

\* mutant: cleanup sits in the KeyboardInterrupt handler, not in finally
MainFinally_interrupt_only ==
    /\ pc = "finally"
    /\ pc' = "done"
    /\ IF stop.cause = "interrupt"
       THEN /\ phase' = "closed"
            /\ sink' = cleanup(sink)
            /\ drv' = cleanup_drv(sink)
            /\ last' = [NoCall EXCEPT !.op = "cleanup"]
            /\ log' = Append(log, Call("cleanup", 0, Rat(0, 1)))
       ELSE UNCHANGED <<phase, sink, drv, last, log>>
    /\ UNCHANGED <<args, clock, fps, i, wave_offset, frames, stop>>
    /\ UNCHANGED codecVars

\* finally: leds.cleanup()
MainFinally ==
    /\ pc = "finally"
    /\ pc' = "done"
    /\ phase' = "closed"
    /\ sink' = cleanup(sink)
    /\ drv' = cleanup_drv(sink)
    /\ last' = [NoCall EXCEPT !.op = "cleanup"]
    /\ log' = Append(log, Call("cleanup", 0, Rat(0, 1)))
    /\ UNCHANGED <<args, clock, fps, i, wave_offset, frames, stop>>
    /\ UNCHANGED codecVars

Next ==
    \/ MainConstruct
    \/ MainConstructRaises
    \/ MainSetPwm
    \/ MainAdvance
    \/ MainTick
    \/ KeyboardInterrupt
    \/ MainExcept
    \/ MainFinally

Spec == Init /\ [][Next]_vars

CallsOf(op) == {k \in DOMAIN log : log[k].op = op}

\* C1: on every termination path of the loop (Ctrl-C, or an error raised by a
\* sink call while Running), leds.cleanup() is called exactly once before
\* main() exits, and no set_pwm or update_fps_display call follows it.
C1_CleanupOnceAndLast ==
    /\ Cardinality(CallsOf("cleanup")) <= 1
    /\ \A k \in CallsOf("cleanup") : k = Len(log)
    /\ (pc = "done" /\ stop.cause \in {"interrupt", "error"}) =>
          /\ Cardinality(CallsOf("cleanup")) = 1
          /\ phase = "closed"
    /\ (stop.cause \in {"interrupt", "error"} /\ pc # "done") =>
          CallsOf("cleanup") = {}

C1_Witness_ErrorInSinkCall ==
    /\ pc = "done"
    /\ stop.cause = "error" /\ stop.pc = "update_fps_display" /\ stop.frames = 1
    /\ log[Len(log)].op = "cleanup"
    /\ log[Len(log) - 1].op = "update_fps_display"

\* the loop was cancelled between two frames, after stop.frames of them
CancelledAfterFrames ==
    /\ pc = "done"
    /\ stop.cause = "interrupt" /\ stop.pc = "for" /\ stop.i = 0

\* C2: when the loop is cancelled after exactly N frames, set_pwm was called
\* N * get_num_leds() times (in every frame once for each index 0..count-1 in
\* increasing order, before that frame's update_fps_display),
\* update_fps_display N times, and cleanup once, after the last
\* update_fps_display.
C2_CallsAfterNFrames ==
    CancelledAfterFrames =>
        LET N == stop.frames
            n == get_num_leds(sink)
        IN  /\ Cardinality(CallsOf("set_pwm")) = N * n
            /\ Cardinality(CallsOf("update_fps_display")) = N
            /\ Cardinality(CallsOf("cleanup")) = 1
            /\ Len(log) = N * (n + 1) + 1
            /\ \A f \in 0 .. (N - 1) :
                  /\ \A k \in 0 .. (n - 1) :
                        /\ log[f * (n + 1) + k + 1].op = "set_pwm"
                        /\ log[f * (n + 1) + k + 1].idx = k
                  /\ log[f * (n + 1) + n + 1].op = "update_fps_display"
            /\ log[Len(log)].op = "cleanup"

C2_Witness_CancelledAfterTwoFrames ==
    /\ CancelledAfterFrames
    /\ stop.frames = 2
    /\ get_num_leds(sink) = 6
    /\ Cardinality(CallsOf("set_pwm")) = 12
    /\ Cardinality(CallsOf("update_fps_display")) = 2

(***************************************************************************)
(* The wave main() pushes to the sink.  Frame f (from 0) runs with         *)
(* wave_offset = f * 0.05; positions are counted in units of 1/(20*count), *)
(* so that one period 2.0 is 40*count units.                               *)
(***************************************************************************)
SetPwmFrame(k, n) == (k - 1) \div (n + 1)
UnitPosition(f, idx, n) == (f * n + 20 * idx) % (40 * n)
UnitWave(f, idx, n) ==
    IF UnitPosition(f, idx, n) <= 20 * n THEN UnitPosition(f, idx, n)
    ELSE 40 * n - UnitPosition(f, idx, n)

\* C11: in every frame and for every channel i the value passed to
\* set_pwm(i, .) is MIN_PWM + w * (MAX_PWM - MIN_PWM) with
\* position = (wave_offset + i/count) mod 2.0 and w = position if
\* position <= 1.0 else 2.0 - position; w is in [0,1], the value in
\* [MIN_PWM, MAX_PWM] = [0.05, 1.0]; wave_offset starts at 0.0 and is the same
\* for all channels of a frame (w = 0 at position 0, 1 at 1.0, 0.5 at 1.5).
C11_PushedValueIsTriangleWave ==
    \A k \in CallsOf("set_pwm") :
        LET n == get_num_leds(sink)
            f == SetPwmFrame(k, n)
            idx == log[k].idx
            w == UnitWave(f, idx, n)
            v == log[k].val
        IN  /\ 0 <= w /\ w <= 20 * n
            /\ v.num * (400 * n) = (20 * n + 19 * w) * v.den
            /\ 20 * v.num >= v.den /\ v.num <= v.den
            /\ UnitPosition(f, idx, n) = 0 => 20 * v.num = v.den
            /\ UnitPosition(f, idx, n) = 20 * n => v.num = v.den
            /\ UnitPosition(f, idx, n) = 30 * n => 1000 * v.num = 525 * v.den

C11_Witness_FallingEdgeHalf ==
    /\ log # <<>>
    /\ log[Len(log)].op = "set_pwm" /\ log[Len(log)].idx = 0
    /\ SetPwmFrame(Len(log), get_num_leds(sink)) = 30
    /\ wave_offset = Rat(30 * WAVE_SPEED.num, WAVE_SPEED.den)
    /\ 1000 * log[Len(log)].val.num = 525 * log[Len(log)].val.den

====
